---- MODULE Spec2Model ----
(***************************************************************************)
(* Page-lifecycle coordinator of the portfolio site (src/js/main.js):      *)
(* PortfolioApp.init and its bootstrap, ThemeManager, NavigationManager,   *)
(* AnimationManager, LazyLoadManager and the window-level error handlers,  *)
(* and of the cache worker sw.js (src/unnamed/part_001).                   *)
(*                                                                         *)
(* JavaScript runs every listener to completion, so one action is one      *)
(* browser event with all the listeners it reaches, in registration order. *)
(* Every `new ThemeManager()` / `new NavigationManager()` adds its own     *)
(* listeners to the same DOM nodes, so the managers are kept as sequences  *)
(* of instances that share the document state.                             *)
(***************************************************************************)
EXTENDS Integers, Sequences, FiniteSets, TLC

\* Bounds of the model.
MaxInitCalls == 2      \* app.init() calls made from outside the script
MaxToggles == 3        \* toggleTheme calls per ThemeManager instance

None == "none"         \* localStorage.getItem(...) === null / attribute absent
Themes == {"light", "dark"}
StoredValues == {None} \cup Themes
Managers == {"theme", "navigation", "animation", "lazyLoad", "performance",
             "serviceWorker"}

VARIABLES
  hasIO,                 \* 'IntersectionObserver' in window
  prefersReducedMotion,  \* CONFIG.prefersReducedMotion
  hasAnimate,            \* 'animate' in document.createElement('div')
  hasWebVitalKey,        \* 'web-vital' in window
  hasWebVitals,          \* window.webVitals is the web-vitals library
  hasServiceWorker,      \* 'serviceWorker' in navigator
  readyState,            \* document.readyState
  booted,                \* the script's top level (lines 661-667) has run
  bootListener,          \* the DOMContentLoaded listener of line 664 is pending
  awaiting,              \* init calls suspended at the await of line 568
  initCalls,             \* app.init() calls made from outside the script
  app,                   \* the PortfolioApp instance and its history
  th,                    \* theme: localStorage, <html data-theme>, instances
  nav,                   \* mobile menu: DOM attributes and instances
  sc,                    \* scroll position and the links' class 'active'
  an,                    \* reveal animation: element styles and instances
  lz,                    \* lazy images and LazyLoadManager instances
  er,                    \* uncaught errors raised on the page
  sw                     \* the cache worker and the origin's cache storage

vars == <<hasIO, prefersReducedMotion, hasAnimate, hasWebVitalKey,
          hasWebVitals, hasServiceWorker, readyState, booted,
          bootListener, awaiting, initCalls, app, th, nav, sc, an, lz, er, sw>>

env == <<hasIO, prefersReducedMotion, hasAnimate, hasWebVitalKey,
         hasWebVitals, hasServiceWorker>>

----------------------------------------------------------------------------
\* Utility layer

supportsAnimations == ~prefersReducedMotion /\ hasAnimate

----------------------------------------------------------------------------
\* ThemeManager
\*   th.stored      localStorage['theme']
\*   th.dataTheme   document.documentElement data-theme
\*   th.prefersDark matchMedia('(prefers-color-scheme: dark)').matches
\*   th.mgr[i]      i-th ThemeManager: .theme is this.theme; .v0, .os0,
\*                  .theme0, .ntog are history (stored value and OS preference
\*                  read at construction, theme applied by the constructor,
\*                  number of toggleTheme calls)
\*   th.snaps       history: the state right after each toggleTheme call of
\*                  the latest event
\*   th.applied     the themeChange events dispatched by the handler that
\*                  is running, in order: the data-theme each left
\* The page has a .theme-toggle button. The button's icon and label and the
\* transient style.transition / style.transform of lines 80-85 and 93-98
\* are written and never read, and are left out.

MutOppositeStuck(t) == "dark"
Opposite(t) == IF t = "light" THEN "dark" ELSE "light"

applyTheme(t, i) ==
  [t EXCEPT !.dataTheme = t.mgr[i].theme,
            !.applied = Append(@, t.mgr[i].theme)]

\* The handler has returned.
Settled(t) == [t EXCEPT !.applied = <<>>]

ThemeManagerNew(t) ==
  LET read == t.stored
      theme == IF read = None THEN "light" ELSE read
      m == [theme |-> theme, v0 |-> read, os0 |-> t.prefersDark,
            theme0 |-> theme, ntog |-> 0]
      t1 == [t EXCEPT !.mgr = Append(@, m)]
  IN applyTheme(t1, Len(t1.mgr))

Snapshot(t, i) ==
  [inst |-> i, n |-> t.mgr[i].ntog, stored |-> t.stored,
   dataTheme |-> t.dataTheme, theme |-> t.mgr[i].theme]

MutToggleStoresOld(t, i) ==
  LET t1 == [t EXCEPT !.stored = t.mgr[i].theme,
                      !.mgr[i].theme = Opposite(t.mgr[i].theme),
                      !.mgr[i].ntog = @ + 1]
      t2 == applyTheme(t1, i)
  IN [t2 EXCEPT !.snaps = Append(@, Snapshot(t2, i))]
toggleTheme(t, i) ==
  LET t1 == [t EXCEPT !.mgr[i].theme = Opposite(t.mgr[i].theme),
                      !.mgr[i].ntog = @ + 1]
      t2 == [t1 EXCEPT !.stored = t1.mgr[i].theme]
      t3 == applyTheme(t2, i)
  IN [t3 EXCEPT !.snaps = Append(@, Snapshot(t3, i))]

MutSystemThemePersists(t, i, matches) ==
  IF t.stored = None
  THEN applyTheme([t EXCEPT !.mgr[i].theme =
                      IF matches THEN "dark" ELSE "light",
                            !.stored = IF matches THEN "dark" ELSE "light"], i)
  ELSE t
MutSystemThemeAlways(t, i, matches) ==
  applyTheme([t EXCEPT !.mgr[i].theme = IF matches THEN "dark" ELSE "light"], i)
onSystemThemeChange(t, i, matches) ==
  IF t.stored = None
  THEN applyTheme([t EXCEPT !.mgr[i].theme =
                      IF matches THEN "dark" ELSE "light"], i)
  ELSE t

\* The click listener of every instance, in registration order.
RECURSIVE ToggleFrom(_, _)
ToggleFrom(t, i) ==
  IF i > Len(t.mgr) THEN t ELSE ToggleFrom(toggleTheme(t, i), i + 1)

\* The media-query 'change' listener of every instance.
RECURSIVE SystemThemeFrom(_, _, _)
SystemThemeFrom(t, i, matches) ==
  IF i > Len(t.mgr) THEN t
  ELSE SystemThemeFrom(onSystemThemeChange(t, i, matches), i + 1, matches)

----------------------------------------------------------------------------
\* NavigationManager, mobile menu
\*   nav.mgr[i]  i-th NavigationManager: .isMenuOpen
\*   nav.hamburgerActive / nav.navMenuActive  class 'active' on .hamburger
\*                                            and on .nav-menu
\*   nav.bodyOverflow   document.body.style.overflow
\*   nav.ariaExpanded   aria-expanded of .hamburger
\*   nav.ariaHidden     aria-hidden of .nav-menu
\*   nav.transitioned   history: toggleMobileMenu or closeMobileMenu has run
\*   nav.closeCalled    history: closeMobileMenu ran during the latest event
\*   nav.lastEvent      history: the latest menu event
\* The page is one that has a .hamburger and a .nav-menu (the guard of line
\* 133), neither carrying class 'active' in the markup.

ClickTargets == {"hamburger", "navLink", "navMenu", "outside"}
Keys == {"Escape", "Enter"}

\* element.contains(e.target); the nav links are inside .nav-menu.
InNavMenu(target) == target \in {"navLink", "navMenu"}
InHamburger(target) == target = "hamburger"

NavigationManagerNew(n) ==
  [n EXCEPT !.mgr = Append(@, [isMenuOpen |-> FALSE])]

\* setAttribute(name, bool) stores String(bool).
BoolAttr(b) == IF b THEN "true" ELSE "false"

toggleMobileMenu(n, i) ==
  LET open == ~n.mgr[i].isMenuOpen
  IN [n EXCEPT !.mgr[i].isMenuOpen = open,
               !.hamburgerActive = ~@,
               !.navMenuActive = ~@,
               !.bodyOverflow = IF open THEN "hidden" ELSE "",
               !.ariaExpanded = BoolAttr(open),
               !.ariaHidden = BoolAttr(~open),
               !.transitioned = TRUE]

MutCloseKeepsState(n, i) ==
  [n EXCEPT !.hamburgerActive = FALSE,
            !.navMenuActive = FALSE,
            !.bodyOverflow = "",
            !.ariaExpanded = "false",
            !.ariaHidden = "true",
            !.transitioned = TRUE,
            !.closeCalled = TRUE]
closeMobileMenu(n, i) ==
  [n EXCEPT !.mgr[i].isMenuOpen = FALSE,
            !.hamburgerActive = FALSE,
            !.navMenuActive = FALSE,
            !.bodyOverflow = "",
            !.ariaExpanded = "false",
            !.ariaHidden = "true",
            !.transitioned = TRUE,
            !.closeCalled = TRUE]

\* Line 134: the hamburger's click listener.
onHamburgerClick(n, i) == toggleMobileMenu(n, i)

\* Lines 139-143: a nav link's click listener.
onNavLinkClick(n, i) ==
  IF n.mgr[i].isMenuOpen THEN closeMobileMenu(n, i) ELSE n

\* Lines 146-150: the document's keydown listener.
MutKeydownUnguarded(n, i, key) ==
  IF key = "Escape" THEN closeMobileMenu(n, i) ELSE n
onKeydown(n, i, key) ==
  IF key = "Escape" /\ n.mgr[i].isMenuOpen THEN closeMobileMenu(n, i) ELSE n

\* Lines 152-158: the document's click listener.
MutDocumentClickIgnoresHamburger(n, i, target) ==
  IF n.mgr[i].isMenuOpen /\ ~InNavMenu(target)
  THEN closeMobileMenu(n, i) ELSE n
onDocumentClick(n, i, target) ==
  IF n.mgr[i].isMenuOpen /\ ~InNavMenu(target) /\ ~InHamburger(target)
  THEN closeMobileMenu(n, i) ELSE n

\* The listeners on the clicked element, one per instance.
RECURSIVE ElementClickFrom(_, _, _)
ElementClickFrom(n, i, target) ==
  IF i > Len(n.mgr) THEN n
  ELSE ElementClickFrom(
         CASE target = "hamburger" -> onHamburgerClick(n, i)
           [] target = "navLink" -> onNavLinkClick(n, i)
           [] OTHER -> n,
         i + 1, target)

\* The event bubbles to the document's click listeners.
RECURSIVE DocumentClickFrom(_, _, _)
DocumentClickFrom(n, i, target) ==
  IF i > Len(n.mgr) THEN n
  ELSE DocumentClickFrom(onDocumentClick(n, i, target), i + 1, target)

RECURSIVE KeydownFrom(_, _, _)
KeydownFrom(n, i, key) ==
  IF i > Len(n.mgr) THEN n
  ELSE KeydownFrom(onKeydown(n, i, key), i + 1, key)

DispatchClick(n, target) ==
  LET n0 == [n EXCEPT !.closeCalled = FALSE, !.lastEvent = target]
  IN DocumentClickFrom(ElementClickFrom(n0, 1, target), 1, target)

DispatchKeydown(n, key) ==
  KeydownFrom([n EXCEPT !.closeCalled = FALSE, !.lastEvent = key], 1, key)

----------------------------------------------------------------------------
\* NavigationManager, active link (setupActiveNavigation)
\*   sc.scrollY        window.scrollY
\*   sc.active         the nav links carrying class 'active'
\*   sc.inThrottle[i]  inThrottle of the i-th instance's updateActiveLink
\*   sc.ran            history: updateActiveLink ran during the latest scroll
\*   sc.heard          history: a scroll event reached a scroll listener
\*   sc.navbar         inline style of .navbar: .palette (the theme whose
\*                     rgba background it has, None before any write)
\*                     and .scrolled (the 0.98 alpha, 12px blur and shadow
\*                     of the scrolled state)
\*   sc.navThrottle[i] inThrottle of the i-th instance's updateNavbar
\* The page's sections do not overlap, and the first anchor of the document
\* with href="#id" is the nav link of section id (the navbar comes first).

Lookahead == 100

\* section[id] elements in document order: offsetTop, offsetHeight and
\* whether a[href="#id"] exists. Nothing lies between 500 and 600.
Sections ==
  << [id |-> "hero", top |-> 0, height |-> 300, link |-> FALSE],
     [id |-> "about", top |-> 300, height |-> 200, link |-> TRUE],
     [id |-> "projects", top |-> 600, height |-> 300, link |-> TRUE] >>

\* .nav-link elements; "blog" points to another page.
NavLinks == {"about", "projects", "blog"}

ScrollYs == {0, 150, 200, 350, 399, 400, 450, 500, 650, 799, 800}

scrollOffset == 50

\* Lines 209-227 under throttle (lines 24-35); theme is the data-theme
\* attribute at the time of the call.
updateNavbar(s, i, theme) ==
  IF s.navThrottle[i] THEN s
  ELSE [s EXCEPT !.navbar = [palette |-> IF theme = "dark" THEN "dark"
                                         ELSE "light",
                             scrolled |-> s.scrollY > scrollOffset],
                 !.navThrottle[i] = TRUE]

\* One themeChange event: the listener of every instance (line 232).
RECURSIVE NavbarFrom(_, _, _)
NavbarFrom(s, i, theme) ==
  IF i > Len(s.navThrottle) THEN s
  ELSE NavbarFrom(updateNavbar(s, i, theme), i + 1, theme)

\* The themeChange events a handler dispatched, in order.
RECURSIVE onThemeChanges(_, _, _)
onThemeChanges(s, themes, k) ==
  IF k > Len(themes) THEN s
  ELSE onThemeChanges(NavbarFrom(s, 1, themes[k]), themes, k + 1)

InSection(sec, pos) == pos >= sec.top /\ pos < sec.top + sec.height

MutMarkKeepsOthers(active, sec, pos) ==
  IF sec.link /\ InSection(sec, pos) THEN active \cup {sec.id} ELSE active
\* Lines 243-253: the body of sections.forEach.
MarkSection(active, sec, pos) ==
  IF sec.link /\ InSection(sec, pos)
  THEN (active \ NavLinks) \cup {sec.id}
  ELSE active

RECURSIVE MarkFrom(_, _, _)
MarkFrom(active, k, pos) ==
  IF k > Len(Sections) THEN active
  ELSE MarkFrom(MarkSection(active, Sections[k], pos), k + 1, pos)

\* Lines 239-255 under throttle (lines 24-35).
updateActiveLink(s, i) ==
  IF s.inThrottle[i] THEN s
  ELSE [s EXCEPT !.active = MarkFrom(@, 1, s.scrollY + Lookahead),
                 !.inThrottle[i] = TRUE,
                 !.ran = TRUE]

\* One scroll event: updateNavbar (line 230) and updateActiveLink (line 257)
\* of every instance.
RECURSIVE ScrollFrom(_, _, _)
ScrollFrom(s, i, theme) ==
  IF i > Len(s.inThrottle) THEN s
  ELSE ScrollFrom(updateActiveLink(updateNavbar(s, i, theme), i), i + 1,
                  theme)

ActiveNavigationNew(s) ==
  [s EXCEPT !.navThrottle = Append(@, FALSE), !.inThrottle = Append(@, FALSE)]

----------------------------------------------------------------------------
\* AnimationManager
\*   an.style[e]   inline style of element e: opacity ("" when unset) and
\*                 transform
\*   an.mgr[i]     i-th AnimationManager: .animated is animatedElements,
\*                 .observer whether an IntersectionObserver was created,
\*                 .observing its targets, .micro whether the hover/press
\*                 listeners were installed
\*   an.calls[e]   history: animateElement calls on e
\*   an.markup[e]  history: the inline opacity e carried in the markup
\* The delayed rescale of .hero-text, the transition-delay of .card and the
\* hover and press handlers of .btn (no observed element is a .btn) are left
\* out.

Elements == {"card", "timelineItem"}

HiddenOffset == "translateY(30px)"

\* Lines 334-357.
animateElement(a, e) ==
  [a EXCEPT !.style[e] =
              [opacity |-> "1",
               transform |-> IF e = "timelineItem"
                             THEN "translateX(0) translateY(0)"
                             ELSE "translateY(0)"],
            !.calls[e] = @ + 1]

\* Lines 301-306: one entry of the observer's callback.
onIntersection(a, i, e, isIntersecting) ==
  IF isIntersecting /\ e \notin a.mgr[i].animated
  THEN [animateElement(a, e) EXCEPT !.mgr[i].animated = @ \cup {e}]
  ELSE a

\* Lines 321-331: hide what carries no inline opacity, observe everything.
observeElements(a) ==
  [a EXCEPT !.style = [e \in Elements |->
                         IF a.style[e].opacity = ""
                         THEN [opacity |-> "0", transform |-> HiddenOffset]
                         ELSE a.style[e]]]

\* Lines 409-414: [style*="opacity: 0"].
showAllElements(a) ==
  [a EXCEPT !.style = [e \in Elements |->
                         IF a.style[e].opacity = "0"
                         THEN [opacity |-> "1", transform |-> "none"]
                         ELSE a.style[e]]]

MutAnimateAlways(a, animate) ==
  [observeElements(a) EXCEPT
     !.mgr = Append(@, [animated |-> {}, observer |-> TRUE,
                        observing |-> Elements, micro |-> TRUE])]
\* Lines 278-292 where the constructor returns; animate is
\* supportsAnimations().
AnimationManagerNew(a, animate) ==
  IF animate
  THEN [observeElements(a) EXCEPT
          !.mgr = Append(@, [animated |-> {}, observer |-> TRUE,
                             observing |-> Elements, micro |-> TRUE])]
  ELSE [showAllElements(a) EXCEPT
          !.mgr = Append(@, [animated |-> {}, observer |-> FALSE,
                             observing |-> {}, micro |-> FALSE])]

\* Lines 385-405: the tilt and mouseleave listeners an instance puts on the
\* card; wide is window.innerWidth > 768.
onCardMouse(a, i, animate, kind, wide) ==
  IF ~a.mgr[i].micro \/ ~animate THEN a
  ELSE IF kind = "mouseleave" THEN [a EXCEPT !.style["card"].transform = ""]
  ELSE IF wide THEN [a EXCEPT !.style["card"].transform = "tilt"]
  ELSE a

RECURSIVE CardMouseFrom(_, _, _, _, _)
CardMouseFrom(a, i, animate, kind, wide) ==
  IF i > Len(a.mgr) THEN a
  ELSE CardMouseFrom(onCardMouse(a, i, animate, kind, wide), i + 1,
                     animate, kind, wide)

RECURSIVE IntersectionFrom(_, _, _, _)
IntersectionFrom(a, i, e, isIntersecting) ==
  IF i > Len(a.mgr) THEN a
  ELSE IntersectionFrom(
         IF e \in a.mgr[i].observing
         THEN onIntersection(a, i, e, isIntersecting) ELSE a,
         i + 1, e, isIntersecting)

----------------------------------------------------------------------------
\* LazyLoadManager
\*   lz.img[m]   image m: .lazy is loading="lazy", .dataSrc whether data-src
\*               is present, .src whether src is set, .load the fetch of src
\*               (none, loading, complete, error), .onload / .onerror whether
\*               the handlers of lines 461-470 are attached, .loaded class
\*               'loaded'; history: .marks runs of classList.add('loaded'),
\*               .srcSets assignments of src from data-src, .handled
\*               loadImage was called on it, .calls how many times
\*   lz.mgr[i]   i-th LazyLoadManager: .fallback whether it took
\*               loadAllImages, .observing the observer's targets
\*   lz.errors   logError calls of the onerror handlers

Images == {"deferred", "native", "dataOnly"}

\* The markup: a deferred image (loading="lazy" data-src), a natively lazy
\* image (loading="lazy" src) and an image with data-src alone.
ImageStart(m) ==
  [lazy |-> m \in {"deferred", "native"},
   dataSrc |-> m \in {"deferred", "dataOnly"},
   src |-> m = "native",
   load |-> "none", onload |-> FALSE, onerror |-> FALSE, loaded |-> FALSE,
   marks |-> 0, srcSets |-> 0, handled |-> FALSE, calls |-> 0]

\* Lines 456-459 and 476-477: img.src = img.dataset.src; delete.
PromoteSrc(im) ==
  [im EXCEPT !.src = TRUE, !.dataSrc = FALSE, !.load = "loading",
             !.srcSets = @ + 1]

\* Lines 454-472.
loadImage(l, m) ==
  LET im == IF l.img[m].dataSrc THEN PromoteSrc(l.img[m]) ELSE l.img[m]
  IN [l EXCEPT !.img[m] = [im EXCEPT !.onload = TRUE, !.onerror = TRUE,
                                     !.handled = TRUE, !.calls = @ + 1]]

\* Lines 439-444: one entry of the observer's callback.
onImageIntersection(l, i, m, isIntersecting) ==
  IF isIntersecting
  THEN [loadImage(l, m) EXCEPT !.mgr[i].observing = @ \ {m}]
  ELSE l

\* Lines 474-480.
loadAllImages(l) ==
  [l EXCEPT !.img = [m \in Images |->
                       IF l.img[m].dataSrc
                       THEN [PromoteSrc(l.img[m]) EXCEPT !.loaded = TRUE,
                                                         !.marks = @ + 1]
                       ELSE l.img[m]]]

\* Lines 418-430 and 448-452; io is 'IntersectionObserver' in window.
LazyLoadManagerNew(l, io) ==
  IF io
  THEN [l EXCEPT !.mgr = Append(@, [fallback |-> FALSE,
                                    observing |-> {m \in Images : l.img[m].lazy}])]
  ELSE [loadAllImages(l) EXCEPT
          !.mgr = Append(@, [fallback |-> TRUE, observing |-> {}])]

RECURSIVE ImageIntersectionFrom(_, _, _, _)
ImageIntersectionFrom(l, i, m, isIntersecting) ==
  IF i > Len(l.mgr) THEN l
  ELSE ImageIntersectionFrom(
         IF m \in l.mgr[i].observing
         THEN onImageIntersection(l, i, m, isIntersecting) ELSE l,
         i + 1, m, isIntersecting)

\* Lines 461-465: the load event reaches img.onload if one is attached.
onImageLoad(l, m) ==
  IF l.img[m].onload
  THEN [l EXCEPT !.img[m].load = "complete", !.img[m].loaded = TRUE,
                 !.img[m].marks = @ + 1]
  ELSE [l EXCEPT !.img[m].load = "complete"]

\* Lines 467-470.
onImageError(l, m) ==
  IF l.img[m].onerror
  THEN [l EXCEPT !.img[m].load = "error", !.errors = @ + 1]
  ELSE [l EXCEPT !.img[m].load = "error"]

----------------------------------------------------------------------------
\* The cache worker registered from /sw.js
\*   sw.caches      CacheStorage of the origin: bucket name -> cached URLs
\*   sw.worker      the worker: parsed, installing, installed (waiting),
\*                  activated, redundant
\*   sw.prevActive  a worker of an earlier deployment is the active one
\*   sw.down        URLs the network cannot deliver at the moment
\*   sw.lastFetch   history: the latest intercepted request, whether a
\*                  cached entry matched it, where the response came from
\*                  and whether the network was contacted
\*   sw.installDown history: sw.down when cache.addAll settled
\*   sw.start       history: caches and prevActive before the install event
\* Requests are GET requests identified by their path.

CACHE_NAME == "dimitri-portfolio-v1"

urlsToCache ==
  << "/", "/index.html", "/about.html", "/flowsteo.html", "/css/style.css",
     "/js/main.js", "/images/profile/dimitri-hero.jpg",
     "/images/profile/dimitri-profile.jpg",
     "/images/profile/dimitri-about.jpg", "/images/flowsteo/logo.png",
     "/images/flowsteo/flowsteo-hero.jpg",
     "/images/flowsteo/flowsteo-dashboard-main.jpg" >>

Manifest == {urlsToCache[k] : k \in 1..Len(urlsToCache)}

\* Buckets earlier deployments may have left, and what they hold.
OldBuckets == {"portfolio-v1", "portfolio-v1old", "dimitri-portfolio-v0"}
OldEntries == {"/", "/contact.html"}

\* Paths the pages request.
Urls == Manifest \cup {"/contact.html", "/js/analytics.js"}

\* The outages considered: none, or one path.
Outages == {{}} \cup {{u} : u \in Urls}

NoFetch == [url |-> None, cached |-> FALSE, source |-> None,
            network |-> FALSE]

\* caches.open(name): the bucket is created when missing.
cachesOpen(c, name) ==
  IF name \in DOMAIN c THEN c
  ELSE [n \in DOMAIN c \cup {name} |-> IF n = name THEN {} ELSE c[n]]

\* caches.match(request): any bucket of the origin.
cachesMatch(c, url) == \E n \in DOMAIN c : url \in c[n]

MutAddAllKeepsGoing(c, name, urls, down) ==
  [caches |-> [c EXCEPT ![name] = @ \cup (urls \ down)], ok |-> TRUE]
\* cache.addAll(urls): every URL is fetched; the entries are stored
\* together, or the promise rejects and nothing is stored.
addAll(c, name, urls, down) ==
  IF urls \cap down = {}
  THEN [caches |-> [c EXCEPT ![name] = @ \cup urls], ok |-> TRUE]
  ELSE [caches |-> c, ok |-> FALSE]

\* Lines 17-19: the install event opens the bucket.
onInstall(s) ==
  [s EXCEPT !.worker = "installing",
            !.caches = cachesOpen(@, CACHE_NAME),
            !.start = [caches |-> s.caches, prevActive |-> s.prevActive]]

\* Lines 20-24: addAll settles and with it the promise given to waitUntil;
\* a rejection makes the installing worker redundant.
onInstallSettled(s) ==
  LET r == addAll(s.caches, CACHE_NAME, Manifest, s.down)
  IN [s EXCEPT !.caches = r.caches,
               !.installDown = s.down,
               !.worker = IF r.ok THEN "installed" ELSE "redundant"]

MutActivateKeepsOld(c) == c
\* Lines 40-53.
onActivate(c) == [n \in {m \in DOMAIN c : ~(m # CACHE_NAME)} |-> c[n]]

MutFetchNetworkFirst(s, url) ==
  [s EXCEPT !.lastFetch =
     [url |-> url, cached |-> cachesMatch(s.caches, url),
      source |-> IF url \notin s.down THEN "network"
                 ELSE IF cachesMatch(s.caches, url) THEN "cache"
                 ELSE "failure",
      network |-> TRUE]]
MutFetchStoresResponse(s, url) ==
  [s EXCEPT !.caches = IF cachesMatch(s.caches, url) \/ url \in s.down THEN @
                       ELSE [@ EXCEPT ![CACHE_NAME] = @ \cup {url}],
            !.lastFetch =
     [url |-> url, cached |-> cachesMatch(s.caches, url),
      source |-> IF cachesMatch(s.caches, url) THEN "cache"
                 ELSE IF url \in s.down THEN "failure" ELSE "network",
      network |-> ~cachesMatch(s.caches, url)]]
\* Lines 27-38.
onFetch(s, url) ==
  [s EXCEPT !.lastFetch =
     IF cachesMatch(s.caches, url)
     THEN [url |-> url, cached |-> TRUE, source |-> "cache",
           network |-> FALSE]
     ELSE [url |-> url, cached |-> FALSE,
           source |-> IF url \in s.down THEN "failure" ELSE "network",
           network |-> TRUE]]

WorkerStart(c, prev, down) ==
  [caches |-> c, worker |-> "parsed", prevActive |-> prev, down |-> down,
   lastFetch |-> NoFetch, installDown |-> {},
   start |-> [caches |-> c, prevActive |-> prev]]

----------------------------------------------------------------------------
\* PortfolioApp
\*   app.isInitialized
\*   app.built[m]    constructor calls of manager m
\*   app.listeners   runs of setupGlobalEvents
\*   app.errorHandlers  runs of setupErrorHandling: 'error' and
\*                   'unhandledrejection' listeners on window
\*   app.ready       portfolioReady dispatches
\*   app.errors      logError calls of init's catch
\*   app.vitals[m]   callbacks registered with the web-vitals library for
\*                   metric m
\*   app.metrics     metrics logMetric has recorded
\*   app.reg[i]      the register() promise of the i-th
\*                   ServiceWorkerManager: pending, resolved, rejected, or
\*                   unsupported when the manager did not register
\*   app.regLogged   logError calls of ServiceWorkerManager.init's catch
\*   app.thrownBy    history: the managers whose constructor threw
\*   app.runs        history: per run of init's body, the steps it completed
\*                   with the document.readyState each ran under

MutInitOrderListenersFirst ==
  <<"globalEvents", "errorHandling", "theme", "navigation", "animation",
    "lazyLoad", "performance", "serviceWorker", "initialized", "ready">>
InitOrder ==
  <<"theme", "navigation", "animation", "lazyLoad", "performance",
    "serviceWorker", "globalEvents", "errorHandling", "initialized", "ready">>

Metrics == {"CLS", "FID", "LCP"}

\* Lines 484-517: measureCLS, measureFID and measureLCP test the property
\* 'web-vital' of window and then call window.webVitals; p.threw is the
\* TypeError of reading getCLS of undefined.
PerformanceManagerNew(a, key, lib) ==
  IF ~key THEN [app |-> a, threw |-> FALSE]
  ELSE IF ~lib THEN [app |-> a, threw |-> TRUE]
  ELSE [app |-> [a EXCEPT !.vitals = [m \in Metrics |-> @[m] + 1]],
        threw |-> FALSE]

\* Lines 534-554 up to the await: the constructor returns with the
\* registration pending.
ServiceWorkerManagerNew(a, supported) ==
  [a EXCEPT !.reg = Append(@, IF supported THEN "pending" ELSE "unsupported")]

MutRegistrationUncaught(p, i, ok) ==
  IF ok THEN [p EXCEPT !.app.reg[i] = "resolved"]
  ELSE [p EXCEPT !.app.reg[i] = "rejected",
                 !.er = [last |-> "unhandledrejection",
                         logCalls |-> p.app.errorHandlers]]
\* Lines 541-552: the continuation of the await; p holds app and er.
onRegistrationSettled(p, i, ok) ==
  IF ok THEN [p EXCEPT !.app.reg[i] = "resolved"]
  ELSE [p EXCEPT !.app.reg[i] = "rejected", !.app.regLogged = @ + 1]

\* A run of init's body: r.w is the world, r.log the completed steps,
\* r.threw whether an exception is propagating to the catch of line 588.
Done(r, name, rs) ==
  [r EXCEPT !.log = Append(@, [ev |-> name, readyState |-> rs])]

Construct(r, m) == [r EXCEPT !.w.app.built[m] = @ + 1]

InitStep(r, name, rs) ==
  IF r.threw THEN r
  ELSE CASE name = "theme" ->
              LET t == ThemeManagerNew(r.w.th)
              IN Done([Construct(r, name) EXCEPT
                         !.w.th = Settled(t),
                         !.w.sc = onThemeChanges(@, t.applied, 1)],
                      name, rs)
         [] name = "navigation" ->
              Done([Construct(r, name) EXCEPT
                      !.w.nav = NavigationManagerNew(@),
                      !.w.sc = ActiveNavigationNew(@)],
                   name, rs)
         [] name = "animation" ->
              \* setupIntersectionObserver: new IntersectionObserver(...)
              \* is a ReferenceError where the constructor does not exist
              IF supportsAnimations /\ ~hasIO
              THEN [Construct(r, name) EXCEPT
                      !.threw = TRUE, !.w.app.thrownBy = @ \cup {name}]
              ELSE Done([Construct(r, name) EXCEPT
                           !.w.an = AnimationManagerNew(@, supportsAnimations)],
                        name, rs)
         [] name = "lazyLoad" ->
              Done([Construct(r, name) EXCEPT
                      !.w.lz = LazyLoadManagerNew(@, hasIO)],
                   name, rs)
         [] name = "performance" ->
              LET c == Construct(r, name)
                  p == PerformanceManagerNew(c.w.app, hasWebVitalKey,
                                             hasWebVitals)
              IN IF p.threw
                 THEN [c EXCEPT !.threw = TRUE,
                                !.w.app.thrownBy = @ \cup {name}]
                 ELSE Done([c EXCEPT !.w.app = p.app], name, rs)
         [] name = "serviceWorker" ->
              Done([Construct(r, name) EXCEPT
                      !.w.app = ServiceWorkerManagerNew(@, hasServiceWorker)],
                   name, rs)
         [] name = "globalEvents" ->
              Done([r EXCEPT !.w.app.listeners = @ + 1], name, rs)
         [] name = "errorHandling" ->
              Done([r EXCEPT !.w.app.errorHandlers = @ + 1], name, rs)
         [] name = "initialized" ->
              Done([r EXCEPT !.w.app.isInitialized = TRUE], name, rs)
         [] name = "ready" ->
              Done([r EXCEPT !.w.app.ready = @ + 1], name, rs)

RECURSIVE RunSteps(_, _, _)
RunSteps(r, k, rs) ==
  IF k > Len(InitOrder) THEN r
  ELSE RunSteps(InitStep(r, InitOrder[k], rs), k + 1, rs)

\* Lines 573-590: the body after the await, with its try/catch.
InitBody(w, rs) ==
  LET r == RunSteps([w |-> w, log |-> <<>>, threw |-> FALSE], 1, rs)
      w1 == [r.w EXCEPT !.app.runs = Append(@, r.log)]
  IN IF r.threw THEN [w1 EXCEPT !.app.errors = @ + 1] ELSE w1

\* Lines 563-572: the guard and the wait for DOMContentLoaded.
PortfolioAppInit(w, rs) ==
  IF w.app.isInitialized THEN w
  ELSE IF rs = "loading" THEN [w EXCEPT !.awaiting = @ + 1]
  ELSE InitBody(w, rs)

\* The continuations of the suspended init calls, resumed in order.
RECURSIVE ResumeAll(_, _, _)
ResumeAll(w, k, rs) ==
  IF k = 0 THEN w ELSE ResumeAll(InitBody(w, rs), k - 1, rs)

World == [app |-> app, th |-> th, nav |-> nav, sc |-> sc, an |-> an,
          lz |-> lz, awaiting |-> awaiting]

Commit(w) ==
  /\ app' = w.app
  /\ th' = w.th
  /\ nav' = w.nav
  /\ sc' = w.sc
  /\ an' = w.an
  /\ lz' = w.lz
  /\ awaiting' = w.awaiting

----------------------------------------------------------------------------
\* The page before the script's top level runs, in any browser.
InitWindow ==
  /\ hasIO \in BOOLEAN
  /\ prefersReducedMotion \in BOOLEAN
  /\ hasAnimate \in BOOLEAN
  /\ readyState \in {"loading", "interactive"}
  /\ booted = FALSE
  /\ bootListener = FALSE
  /\ awaiting = 0
  /\ initCalls = 0
  /\ app = [isInitialized |-> FALSE, built |-> [m \in Managers |-> 0],
            listeners |-> 0, errorHandlers |-> 0, ready |-> 0, errors |-> 0,
            vitals |-> [m \in Metrics |-> 0], metrics |-> {}, reg |-> <<>>,
            regLogged |-> 0, thrownBy |-> {}, runs |-> <<>>]
  /\ er = [last |-> None, logCalls |-> 0]
  /\ hasWebVitalKey \in BOOLEAN
  /\ hasWebVitals \in BOOLEAN
  /\ hasServiceWorker \in BOOLEAN

\* A browser with service workers on a page that loads no web-vitals
\* library.
InitLifecycle ==
  /\ InitWindow
  /\ hasWebVitalKey = FALSE
  /\ hasWebVitals = FALSE
  /\ hasServiceWorker = TRUE

ThemeStart(s, d) ==
  [stored |-> s, dataTheme |-> None, prefersDark |-> d, mgr |-> <<>>,
   snaps |-> <<>>, applied |-> <<>>]

InitTheme == \E s \in StoredValues, d \in BOOLEAN : th = ThemeStart(s, d)

InitMenu ==
  nav = [mgr |-> <<>>, hamburgerActive |-> FALSE, navMenuActive |-> FALSE,
         bodyOverflow |-> "", ariaExpanded |-> None, ariaHidden |-> None,
         transitioned |-> FALSE, closeCalled |-> FALSE, lastEvent |-> None]

ScrollStart(y, active) ==
  [scrollY |-> y, active |-> active, inThrottle |-> <<>>, ran |-> FALSE,
   heard |-> FALSE, navbar |-> [palette |-> None, scrolled |-> FALSE],
   navThrottle |-> <<>>]

AnimationStart(opacity) ==
  [style |-> [e \in Elements |-> [opacity |-> opacity[e], transform |-> ""]],
   mgr |-> <<>>, calls |-> [e \in Elements |-> 0], markup |-> opacity]

LazyStart == [img |-> [m \in Images |-> ImageStart(m)], mgr |-> <<>>,
              errors |-> 0]

\*   er.last      kind of the latest uncaught error or unhandled rejection
\*   er.logCalls  logError calls the window listeners made for it
\* Each subsystem is checked from all its starting states with the others
\* at one of theirs: no handler of one reads or writes another's state.
QuietTheme == th = ThemeStart(None, FALSE)
QuietScroll == sc = ScrollStart(0, {})
QuietAnimation == an = AnimationStart([e \in Elements |-> ""])
QuietLazy == lz = LazyStart
QuietWorker == sw = WorkerStart([n \in {} |-> {}], FALSE, {})

Init ==
  /\ InitLifecycle
  /\ InitTheme
  /\ InitMenu
  /\ QuietScroll
  /\ QuietAnimation
  /\ QuietLazy
  /\ QuietWorker

\* The page as its markup gives it, with nothing stored.
InitPage ==
  /\ InitLifecycle
  /\ QuietTheme
  /\ InitMenu
  /\ QuietScroll
  /\ QuietAnimation
  /\ QuietLazy
  /\ QuietWorker

\* The worker script has just been fetched and parsed. Earlier deployments
\* may have left buckets, a bucket of the current name comes from an earlier
\* install of this worker, and an earlier worker may be active. The worker
\* shares no state with the page, which is held at one of its start states.
InitWorker ==
  /\ InitLifecycle
  /\ hasIO /\ hasAnimate /\ ~prefersReducedMotion
  /\ readyState = "loading"
  /\ QuietTheme
  /\ InitMenu
  /\ QuietScroll
  /\ QuietAnimation
  /\ QuietLazy
  /\ \E old \in SUBSET OldBuckets, cur \in BOOLEAN, prev \in BOOLEAN,
        down \in Outages :
       sw = WorkerStart(
              [n \in old \cup (IF cur THEN {CACHE_NAME} ELSE {}) |->
                 IF n = CACHE_NAME THEN Manifest ELSE OldEntries],
              prev, down)

\* Any browser, with or without a web-vitals library on the page.
InitServices ==
  /\ InitWindow
  /\ QuietTheme
  /\ InitMenu
  /\ QuietScroll
  /\ QuietAnimation
  /\ QuietLazy
  /\ QuietWorker

\* Nothing stored, so that toggles and OS changes both change the theme; the
\* OS prefers light at first.
InitNavbar ==
  /\ InitLifecycle
  /\ hasIO /\ hasAnimate /\ ~prefersReducedMotion
  /\ QuietTheme
  /\ InitMenu
  /\ QuietScroll
  /\ QuietAnimation
  /\ QuietLazy
  /\ QuietWorker

\* What localStorage may hold under 'theme' when the page loads: nothing, a
\* theme, or a value this script never writes.
AnyStored == StoredValues \cup {"blue"}

InitStored ==
  /\ InitLifecycle
  /\ hasIO /\ hasAnimate /\ ~prefersReducedMotion
  /\ \E s \in AnyStored, d \in BOOLEAN : th = ThemeStart(s, d)
  /\ InitMenu
  /\ QuietScroll
  /\ QuietAnimation
  /\ QuietLazy
  /\ QuietWorker

\* Each observed element carries no inline opacity, or opacity: 0, in the
\* markup.
InitAnimation ==
  /\ InitLifecycle
  /\ QuietTheme
  /\ InitMenu
  /\ QuietScroll
  /\ \E o \in [Elements -> {"", "0"}] : an = AnimationStart(o)
  /\ QuietLazy
  /\ QuietWorker

\* The links that carry 'active' in the markup, and the scroll position the
\* page is restored at.
InitScroll ==
  /\ InitLifecycle
  /\ hasIO /\ hasAnimate /\ ~prefersReducedMotion
  /\ QuietTheme
  /\ InitMenu
  /\ \E y \in ScrollYs, a \in SUBSET NavLinks : sc = ScrollStart(y, a)
  /\ QuietAnimation
  /\ QuietLazy
  /\ QuietWorker

\* Lines 661-667: the script's top level.
Bootstrap ==
  /\ ~booted
  /\ booted' = TRUE
  /\ IF readyState = "loading"
     THEN /\ bootListener' = TRUE
          /\ UNCHANGED <<app, th, nav, sc, an, lz, awaiting>>
     ELSE /\ bootListener' = FALSE
          /\ Commit(PortfolioAppInit(World, readyState))
  /\ UNCHANGED <<env, readyState, initCalls, er, sw>>

\* app.init() through module.exports or window.portfolioDebug.app.
ExternalInit ==
  /\ booted
  /\ initCalls < MaxInitCalls
  /\ initCalls' = initCalls + 1
  /\ Commit(PortfolioAppInit(World, readyState))
  /\ UNCHANGED <<env, readyState, booted, bootListener, er, sw>>

\* The document finishes parsing: the listener of line 664, then the
\* `resolve` listeners of line 569 with the continuations they release.
DOMContentLoaded ==
  /\ readyState = "loading"
  /\ readyState' = "interactive"
  /\ bootListener' = FALSE
  /\ LET w0 == [World EXCEPT !.awaiting = 0]
         w1 == IF bootListener THEN PortfolioAppInit(w0, "interactive") ELSE w0
     IN Commit(ResumeAll(w1, awaiting, "interactive"))
  /\ UNCHANGED <<env, booted, initCalls, er, sw>>

\* A click on .theme-toggle.
ClickThemeToggle ==
  /\ Len(th.mgr) >= 1
  /\ \A i \in 1..Len(th.mgr) : th.mgr[i].ntog < MaxToggles
  /\ LET t == ToggleFrom([th EXCEPT !.snaps = <<>>], 1)
     IN th' = Settled(t) /\ sc' = onThemeChanges(sc, t.applied, 1)
  /\ UNCHANGED <<env, readyState, booted, bootListener, awaiting, initCalls,
                 app, nav, an, lz, er, sw>>

\* window.portfolioDebug.toggleTheme(): app.components.theme.toggleTheme().
DebugToggleTheme ==
  /\ Len(th.mgr) >= 1
  /\ th.mgr[Len(th.mgr)].ntog < MaxToggles
  /\ LET t == toggleTheme([th EXCEPT !.snaps = <<>>], Len(th.mgr))
     IN th' = Settled(t) /\ sc' = onThemeChanges(sc, t.applied, 1)
  /\ UNCHANGED <<env, readyState, booted, bootListener, awaiting, initCalls,
                 app, nav, an, lz, er, sw>>

\* The OS colour scheme changes.
SystemThemeChange ==
  /\ LET matches == ~th.prefersDark
         t == SystemThemeFrom([th EXCEPT !.prefersDark = matches,
                                         !.snaps = <<>>], 1, matches)
     IN th' = Settled(t) /\ sc' = onThemeChanges(sc, t.applied, 1)
  /\ UNCHANGED <<env, readyState, booted, bootListener, awaiting, initCalls,
                 app, nav, an, lz, er, sw>>

\* A click on the hamburger, a nav link, the menu or elsewhere.
Click(target) ==
  /\ Len(nav.mgr) >= 1
  /\ nav' = DispatchClick(nav, target)
  /\ UNCHANGED <<env, readyState, booted, bootListener, awaiting, initCalls,
                 app, th, sc, an, lz, er, sw>>

ClickHamburger == Click("hamburger")
ClickNavLink == Click("navLink")
ClickNavMenu == Click("navMenu")
ClickOutside == Click("outside")

Keydown(key) ==
  /\ Len(nav.mgr) >= 1
  /\ nav' = DispatchKeydown(nav, key)
  /\ UNCHANGED <<env, readyState, booted, bootListener, awaiting, initCalls,
                 app, th, sc, an, lz, er, sw>>

KeydownEscape == Keydown("Escape")
KeydownOther == Keydown("Enter")

\* The window scrolls to y: the scroll listener of every instance.
Scroll(y) ==
  /\ y # sc.scrollY
  /\ sc' = ScrollFrom([sc EXCEPT !.scrollY = y, !.ran = FALSE,
                                 !.heard = @ \/ Len(sc.inThrottle) >= 1],
                      1, th.dataTheme)
  /\ UNCHANGED <<env, readyState, booted, bootListener, awaiting, initCalls,
                 app, th, nav, an, lz, er, sw>>

\* The setTimeout of line 32 of an instance's throttle fires.
ThrottleTimer(i) ==
  /\ sc.inThrottle[i]
  /\ sc' = [sc EXCEPT !.inThrottle[i] = FALSE]
  /\ UNCHANGED <<env, readyState, booted, bootListener, awaiting, initCalls,
                 app, th, nav, an, lz, er, sw>>

\* The setTimeout of line 32 of an instance's throttled updateNavbar fires.
NavbarTimer(i) ==
  /\ sc.navThrottle[i]
  /\ sc' = [sc EXCEPT !.navThrottle[i] = FALSE]
  /\ UNCHANGED <<env, readyState, booted, bootListener, awaiting, initCalls,
                 app, th, nav, an, lz, er, sw>>

ScrollEvent ==
  \/ \E y \in ScrollYs : Scroll(y)
  \/ \E i \in 1..Len(sc.inThrottle) : ThrottleTimer(i)
  \/ \E i \in 1..Len(sc.navThrottle) : NavbarTimer(i)

\* The observer of every instance that observes e reports e entering
\* (isIntersecting) or leaving the viewport.
Intersection(e, isIntersecting) ==
  /\ \E i \in 1..Len(an.mgr) : e \in an.mgr[i].observing
  /\ an' = IntersectionFrom(an, 1, e, isIntersecting)
  /\ UNCHANGED <<env, readyState, booted, bootListener, awaiting, initCalls,
                 app, th, nav, sc, lz, er, sw>>

\* The pointer moves over, or leaves, the card.
CardMouse(kind) ==
  /\ \E wide \in BOOLEAN :
       an' = CardMouseFrom(an, 1, supportsAnimations, kind, wide)
  /\ UNCHANGED <<env, readyState, booted, bootListener, awaiting, initCalls,
                 app, th, nav, sc, lz, er, sw>>

AnimationEvent ==
  \/ \E e \in Elements, b \in BOOLEAN : Intersection(e, b)
  \/ \E kind \in {"mousemove", "mouseleave"} : CardMouse(kind)

\* The observer of every instance that observes image m reports it entering
\* (isIntersecting) or leaving the margin of the viewport.
ImageIntersection(m, isIntersecting) ==
  /\ \E i \in 1..Len(lz.mgr) : m \in lz.mgr[i].observing
  /\ lz' = ImageIntersectionFrom(lz, 1, m, isIntersecting)
  /\ UNCHANGED <<env, readyState, booted, bootListener, awaiting, initCalls,
                 app, th, nav, sc, an, er, sw>>

\* The browser starts fetching the src an image carries in the markup
\* (loading="lazy" lets it wait until the image nears the viewport).
ImageFetch(m) ==
  /\ lz.img[m].src
  /\ lz.img[m].load = "none"
  /\ lz' = [lz EXCEPT !.img[m].load = "loading"]
  /\ UNCHANGED <<env, readyState, booted, bootListener, awaiting, initCalls,
                 app, th, nav, sc, an, er, sw>>

\* The fetch of the image's src ends: its load or error event.
ImageSettles(m, ok) ==
  /\ lz.img[m].load = "loading"
  /\ lz' = IF ok THEN onImageLoad(lz, m) ELSE onImageError(lz, m)
  /\ UNCHANGED <<env, readyState, booted, bootListener, awaiting, initCalls,
                 app, th, nav, sc, an, er, sw>>

LazyEvent ==
  \/ \E m \in Images, b \in BOOLEAN : ImageIntersection(m, b)
  \/ \E m \in Images : ImageFetch(m)
  \/ \E m \in Images, ok \in BOOLEAN : ImageSettles(m, ok)

ErrorKinds == {"error", "unhandledrejection"}

\* Lines 616-622: every installed window listener of that kind calls
\* logError once.
onWindowError(e, handlers, kind) == [last |-> kind, logCalls |-> handlers]

\* Code of the page (a debug helper called from the console, a timer, another
\* script) throws outside any try block, or a promise is rejected with no
\* handler, once the script has been evaluated.
UncaughtError(kind) ==
  /\ booted
  /\ er' = onWindowError(er, app.errorHandlers, kind)
  /\ UNCHANGED <<env, readyState, booted, bootListener, awaiting, initCalls,
                 app, th, nav, sc, an, lz, sw>>

ErrorEvent == \E kind \in ErrorKinds : UncaughtError(kind)

WorkerUnchanged ==
  UNCHANGED <<env, readyState, booted, bootListener, awaiting, initCalls,
              app, th, nav, sc, an, lz, er>>

\* The browser dispatches install to the parsed worker.
Install ==
  /\ sw.worker = "parsed"
  /\ sw' = onInstall(sw)
  /\ WorkerUnchanged

InstallSettled ==
  /\ sw.worker = "installing"
  /\ sw' = onInstallSettled(sw)
  /\ WorkerUnchanged

\* The waiting worker is activated once no page is held by an earlier
\* worker; it replaces that worker when the promise given to waitUntil
\* settles.
Activate ==
  /\ sw.worker = "installed"
  /\ sw' = [sw EXCEPT !.caches = onActivate(@), !.worker = "activated",
                      !.prevActive = FALSE]
  /\ WorkerUnchanged

\* A page the active worker controls requests url.
Fetch(url) ==
  /\ sw.worker = "activated"
  /\ sw' = onFetch(sw, url)
  /\ WorkerUnchanged

\* The network loses or regains a path.
NetworkChange(down) ==
  /\ down # sw.down
  /\ sw' = [sw EXCEPT !.down = down]
  /\ WorkerUnchanged

AnyFetch == \E url \in Urls : Fetch(url)

WorkerEvent ==
  \/ Install
  \/ InstallSettled
  \/ Activate
  \/ AnyFetch
  \/ \E down \in Outages : NetworkChange(down)

\* navigator.serviceWorker.register('/sw.js') of the i-th manager settles.
RegistrationSettled(i, ok) ==
  /\ app.reg[i] = "pending"
  /\ LET p == onRegistrationSettled([app |-> app, er |-> er], i, ok)
     IN app' = p.app /\ er' = p.er
  /\ UNCHANGED <<env, readyState, booted, bootListener, awaiting, initCalls,
                 th, nav, sc, an, lz, sw>>

\* The web-vitals library reports metric m to the registered callbacks
\* (logMetric, lines 514-517).
MetricReported(m) ==
  /\ app.vitals[m] >= 1
  /\ app' = [app EXCEPT !.metrics = @ \cup {m}]
  /\ UNCHANGED <<env, readyState, booted, bootListener, awaiting, initCalls,
                 th, nav, sc, an, lz, er, sw>>

ServiceEvent ==
  \/ \E i \in 1..Len(app.reg), ok \in BOOLEAN : RegistrationSettled(i, ok)
  \/ \E m \in Metrics : MetricReported(m)

Lifecycle == Bootstrap \/ ExternalInit \/ DOMContentLoaded

ThemeEvent == ClickThemeToggle \/ DebugToggleTheme \/ SystemThemeChange

MenuEvent ==
  \/ ClickHamburger
  \/ ClickNavLink
  \/ ClickNavMenu
  \/ ClickOutside
  \/ KeydownEscape
  \/ KeydownOther

Next == Lifecycle \/ ThemeEvent \/ MenuEvent \/ ScrollEvent
          \/ AnimationEvent \/ LazyEvent \/ ErrorEvent \/ WorkerEvent
          \/ ServiceEvent

Spec == Init /\ [][Next]_vars

\* The theme handlers leave the menu alone and the menu handlers the theme,
\* so each is checked with the lifecycle and without the other's events.
NextTheme == Lifecycle \/ ThemeEvent
SpecTheme == Init /\ [][NextTheme]_vars

SpecStored == InitStored /\ [][NextTheme]_vars

NextServices == Lifecycle \/ ServiceEvent
SpecServices == InitServices /\ [][NextServices]_vars

\* Theme changes interleaved with scroll events and the timers of
\* updateNavbar.
NavbarEvent ==
  \/ ClickThemeToggle
  \/ SystemThemeChange
  \/ \E y \in ScrollYs : Scroll(y)
  \/ \E i \in 1..Len(sc.navThrottle) : NavbarTimer(i)

NextNavbar == Lifecycle \/ NavbarEvent
SpecNavbar == InitNavbar /\ [][NextNavbar]_vars

NextMenu == Lifecycle \/ MenuEvent
SpecMenu == Init /\ [][NextMenu]_vars

NextAnimation == Lifecycle \/ AnimationEvent
SpecAnimation == InitAnimation /\ [][NextAnimation]_vars

NextLazy == Lifecycle \/ LazyEvent
SpecLazy == InitPage /\ [][NextLazy]_vars

NextErrors == Lifecycle \/ ErrorEvent
SpecErrors == InitPage /\ [][NextErrors]_vars

NextWorker == WorkerEvent
SpecWorker == InitWorker /\ [][NextWorker]_vars

NextScroll == Lifecycle \/ ScrollEvent
SpecScroll == InitScroll /\ [][NextScroll]_vars

----------------------------------------------------------------------------
\* Claims

FlipN(v, n) == IF n % 2 = 0 THEN v ELSE IF v = "light" THEN "dark" ELSE "light"

OSTheme(prefersDark) == IF prefersDark THEN "dark" ELSE "light"

\* C1: for a ThemeManager constructed over a stored theme v in {light, dark},
\* right after its N-th toggleTheme call (OS preference changes interleaved
\* or not) localStorage 'theme' is v when N is even and the opposite of v
\* when N is odd; with a single manager that is the stored value in every
\* state.
C1_StoredParity ==
  /\ \A k \in 1..Len(th.snaps) :
       LET s == th.snaps[k]
           v == th.mgr[s.inst].v0
       IN v \in Themes => s.stored = FlipN(v, s.n)
  /\ (Len(th.mgr) = 1 /\ th.mgr[1].v0 \in Themes)
       => th.stored = FlipN(th.mgr[1].v0, th.mgr[1].ntog)

C1_Witness ==
  /\ Len(th.snaps) >= 1
  /\ th.snaps[1].n = 3
  /\ th.mgr[th.snaps[1].inst].v0 = "dark"
  /\ th.prefersDark # th.mgr[th.snaps[1].inst].os0

\* C2: right after every toggleTheme call, data-theme equals the value
\* stored under 'theme' and the manager's in-memory theme, and so it does
\* once all listeners of a toggle event have run.
C2_AppliedMatchesStored ==
  /\ \A k \in 1..Len(th.snaps) :
       LET s == th.snaps[k]
       IN /\ s.dataTheme = s.stored
          /\ s.stored = s.theme
          /\ s.stored \in Themes
  /\ th.snaps # <<>> => th.dataTheme = th.stored

C2_Witness ==
  /\ Len(th.snaps) >= 1
  /\ th.snaps[1].n = 2
  /\ th.mgr[th.snaps[1].inst].v0 = None
  /\ th.mgr[th.snaps[1].inst].os0 # th.prefersDark

SameThemes ==
  /\ Len(th'.mgr) = Len(th.mgr)
  /\ \A i \in 1..Len(th.mgr) : th'.mgr[i].theme = th.mgr[i].theme

\* C3: once a theme is stored under 'theme', an OS colour-scheme change
\* alters neither a manager's in-memory theme nor data-theme, and any step
\* that does alter one of them is a toggleTheme call.
C3_StoredThemeSticky ==
  [][th.stored # None =>
       /\ (th'.prefersDark # th.prefersDark
             => SameThemes /\ th'.dataTheme = th.dataTheme)
       /\ ((\/ (th.dataTheme # None /\ th'.dataTheme # th.dataTheme)
            \/ \E i \in 1..Len(th.mgr) : th'.mgr[i].theme # th.mgr[i].theme)
             => \E i \in 1..Len(th.mgr) : th'.mgr[i].ntog > th.mgr[i].ntog)
    ]_vars

C3_Witness ==
  /\ Len(th.mgr) >= 1
  /\ th.mgr[1].v0 = None
  /\ th.mgr[1].ntog = 1
  /\ th.stored = "dark"
  /\ th.snaps = <<>>
  /\ th.prefersDark = FALSE

\* C4: a ThemeManager constructed with nothing stored under 'theme' applies
\* the current OS preference: dark when the OS prefers dark, light otherwise.
C4_ConstructionFollowsOS ==
  \A i \in 1..Len(th.mgr) :
    th.mgr[i].v0 = None => th.mgr[i].theme0 = OSTheme(th.mgr[i].os0)

\* C5: over any app.init() calls, every manager is constructed at most once,
\* the page-wide listeners are installed at most once and portfolioReady is
\* dispatched at most once.
C5_InitOnce ==
  /\ \A m \in Managers : app.built[m] <= 1
  /\ app.listeners <= 1
  /\ app.ready <= 1

ExpectedOrder ==
  <<"theme", "navigation", "animation", "lazyLoad", "performance",
    "serviceWorker", "globalEvents", "errorHandling", "initialized", "ready">>

\* C6: every run of init's body takes its steps in the order theme,
\* navigation, animation, lazy-load, performance, service-worker managers,
\* then the resize/visibility and error listeners, then isInitialized, then
\* portfolioReady (a run that throws stops short in that order), and none of
\* them while document.readyState is 'loading'.
C6_InitOrder ==
  \A k \in 1..Len(app.runs) :
    LET log == app.runs[k]
    IN /\ Len(log) <= Len(ExpectedOrder)
       /\ \A j \in 1..Len(log) :
            /\ log[j].ev = ExpectedOrder[j]
            /\ log[j].readyState # "loading"
       /\ (Len(log) = Len(ExpectedOrder)) => app.isInitialized /\ app.ready >= 1

C6_Witness ==
  /\ Len(app.runs) = 2
  /\ Len(app.runs[1]) = Len(ExpectedOrder)
  /\ Len(app.runs[2]) = Len(ExpectedOrder)

Agrees(open) ==
  /\ nav.ariaExpanded = BoolAttr(open)
  /\ nav.ariaHidden = BoolAttr(~open)
  /\ (nav.bodyOverflow = "hidden") = open
  /\ nav.hamburgerActive = open
  /\ nav.navMenuActive = open

\* C7: once the menu has made a transition, aria-expanded, aria-hidden, the
\* body's overflow and class 'active' on the hamburger and on the menu agree
\* with isMenuOpen.
C7_AttributesAgree ==
  nav.transitioned => \A i \in 1..Len(nav.mgr) : Agrees(nav.mgr[i].isMenuOpen)

AutoCloseTrigger == ClickNavLink \/ KeydownEscape \/ ClickOutside

\* C8: a click on the hamburger, once the hamburger's listener and the
\* document's click listener have run, has flipped isMenuOpen exactly once.
C8_HamburgerFlipsOnce ==
  [][ClickHamburger =>
       /\ Len(nav'.mgr) = Len(nav.mgr)
       /\ \A i \in 1..Len(nav.mgr) :
            nav'.mgr[i].isMenuOpen = ~nav.mgr[i].isMenuOpen
    ]_vars

C8_Witness ==
  /\ nav.lastEvent = "hamburger"
  /\ Len(nav.mgr) = 1
  /\ ~nav.mgr[1].isMenuOpen
  /\ nav.ariaExpanded = "false"

\* C9: a nav-link click, an Escape keydown or a click outside the menu and
\* the hamburger leaves isMenuOpen false, whatever it was.
C9_AutoCloseCloses ==
  [][AutoCloseTrigger =>
       /\ Len(nav'.mgr) = Len(nav.mgr)
       /\ \A i \in 1..Len(nav.mgr) : ~nav'.mgr[i].isMenuOpen
    ]_vars

C9_Witness ==
  /\ nav.lastEvent = "outside"
  /\ nav.closeCalled
  /\ Len(nav.mgr) = 1
  /\ ~nav.mgr[1].isMenuOpen

\* C10: with the menu closed, an Escape keydown, a nav-link click or an
\* outside click does not call closeMobileMenu and changes none of
\* isMenuOpen, the 'active' classes, aria-expanded, aria-hidden and the
\* body's overflow.
C10_NoNegativeTransition ==
  [][(AutoCloseTrigger /\ \A i \in 1..Len(nav.mgr) : ~nav.mgr[i].isMenuOpen) =>
       /\ ~nav'.closeCalled
       /\ nav'.mgr = nav.mgr
       /\ nav'.hamburgerActive = nav.hamburgerActive
       /\ nav'.navMenuActive = nav.navMenuActive
       /\ nav'.ariaExpanded = nav.ariaExpanded
       /\ nav'.ariaHidden = nav.ariaHidden
       /\ nav'.bodyOverflow = nav.bodyOverflow
    ]_vars

C10_Witness ==
  /\ nav.lastEvent = "Escape"
  /\ ~nav.closeCalled
  /\ Len(nav.mgr) = 1
  /\ nav.ariaExpanded = None

\* C11: after updateActiveLink has run with scrollY + 100 inside the span of
\* a section that has a link, the nav links carrying 'active' are exactly
\* that section's link, whatever links carried it before.
C11_OneActiveLink ==
  sc.ran =>
    \A k \in 1..Len(Sections) :
      (Sections[k].link /\ InSection(Sections[k], sc.scrollY + 100))
        => sc.active = {Sections[k].id}

C11_Witness ==
  /\ sc.ran
  /\ sc.scrollY = 799
  /\ sc.active = {"projects"}
  /\ Len(sc.inThrottle) = 1

Revealed(e) == \E i \in 1..Len(an.mgr) : e \in an.mgr[i].animated

\* C12: animateElement is invoked at most once on every observed element
\* over any sequence of intersection events, and an element that has been
\* revealed (in animatedElements) keeps opacity '1' and never gets the hidden
\* offset back.
C12_RevealOnce ==
  \A e \in Elements :
    /\ an.calls[e] <= 1
    /\ Revealed(e) =>
         /\ an.style[e].opacity = "1"
         /\ an.style[e].transform # HiddenOffset

Unsupported == ~supportsAnimations /\ Len(an.mgr) >= 1

\* C19 as stated: without animation support, after AnimationManager
\* initialization every element the manager would otherwise hide has inline
\* opacity '1' and no transform, and no observer or micro-interaction
\* listener exists.
C19_ShownWithOpacityOne ==
  Unsupported =>
    /\ \A e \in Elements :
         /\ an.style[e].opacity = "1"
         /\ an.style[e].transform \in {"", "none"}
    /\ \A i \in 1..Len(an.mgr) : ~an.mgr[i].observer /\ ~an.mgr[i].micro

\* C19 amended: without animation support, after AnimationManager
\* initialization no element has opacity '0' or the hidden offset; the
\* elements written opacity: 0 in the markup have opacity '1' and transform
\* 'none', the others keep their unset inline opacity; no observer or
\* micro-interaction listener exists, so no pointer event moves an element.
C19_NothingLeftHidden ==
  Unsupported =>
    /\ \A e \in Elements :
         /\ an.style[e].opacity # "0"
         /\ an.style[e].transform \in {"", "none"}
         /\ an.markup[e] = "0" =>
              an.style[e] = [opacity |-> "1", transform |-> "none"]
         /\ an.markup[e] = "" =>
              an.style[e] = [opacity |-> "", transform |-> ""]
    /\ \A i \in 1..Len(an.mgr) : ~an.mgr[i].observer /\ ~an.mgr[i].micro

C19_Witness ==
  /\ Unsupported
  /\ prefersReducedMotion
  /\ an.markup = [e \in Elements |-> IF e = "card" THEN "0" ELSE ""]
  /\ an.style["card"].opacity = "1"
  /\ an.style["timelineItem"].opacity = ""

\* C13: every image handled by loadImage whose load has succeeded has no
\* data-src attribute and carries 'loaded', and was marked exactly once,
\* also when its load completed before onload was attached.
C13_LoadedMarkedOnce ==
  \A m \in Images :
    (lz.img[m].handled /\ lz.img[m].load = "complete") =>
      /\ ~lz.img[m].dataSrc
      /\ lz.img[m].loaded
      /\ lz.img[m].marks = 1

\* C20: without IntersectionObserver, once a LazyLoadManager is constructed
\* every image the observer path would manage (img[loading="lazy"]) has its
\* src set from data-src, no data-src attribute and class 'loaded'.
C20_FallbackLoadsManaged ==
  (\E i \in 1..Len(lz.mgr) : lz.mgr[i].fallback) =>
    \A m \in Images :
      ImageStart(m).lazy =>
        /\ lz.img[m].srcSets >= 1
        /\ lz.img[m].src
        /\ ~lz.img[m].dataSrc
        /\ lz.img[m].loaded

\* C18: every uncaught error and every unhandled rejection raised on the
\* page is passed to logError, and every init body cut short by an
\* exception caught and logged it.
C18_ErrorsLogged ==
  /\ er.last # None => er.logCalls >= 1
  /\ app.errors =
       Cardinality({k \in 1..Len(app.runs) : Len(app.runs[k]) < Len(InitOrder)})

\* C14: once activation has completed, the buckets that remain are exactly
\* those of the buckets present before whose name equals CACHE_NAME, each
\* with its entries, so at most one bucket exists.
C14_ActivateKeepsCurrent ==
  sw.worker = "activated" =>
    /\ DOMAIN sw.caches = {CACHE_NAME}
    /\ \A n \in OldBuckets : n \notin DOMAIN sw.caches
    /\ Cardinality(DOMAIN sw.caches) <= 1
    /\ sw.caches[CACHE_NAME] = Manifest

C14_Witness ==
  /\ sw.worker = "activated"
  /\ DOMAIN sw.start.caches = OldBuckets \cup {CACHE_NAME}
  /\ DOMAIN sw.caches = {CACHE_NAME}

Unchanged(n) == n \in DOMAIN sw.caches /\ sw.caches[n] = sw.start.caches[n]

\* C15: installation succeeds iff every manifest URL could be fetched. On
\* success the bucket CACHE_NAME holds every manifest URL; on failure the
\* worker is redundant (it never activates) and the earlier worker and every
\* bucket present before remain as they were.
C15_InstallAllOrNothing ==
  /\ sw.worker \in {"installed", "activated"} =>
       /\ Manifest \cap sw.installDown = {}
       /\ Manifest \subseteq sw.caches[CACHE_NAME]
  /\ sw.worker = "redundant" =>
       /\ Manifest \cap sw.installDown # {}
       /\ sw.prevActive = sw.start.prevActive
       /\ \A n \in DOMAIN sw.start.caches : Unchanged(n)
       /\ CACHE_NAME \notin DOMAIN sw.start.caches => sw.caches[CACHE_NAME] = {}

C15_Witness ==
  /\ sw.worker = "redundant"
  /\ sw.installDown = {"/css/style.css"}
  /\ sw.prevActive
  /\ Unchanged("portfolio-v1old")

\* C16: an intercepted request is answered with the cached entry when one
\* matches it and with the network response otherwise, and the network is
\* contacted only when no entry matches.
C16_CacheFirst ==
  sw.lastFetch.url # None =>
    /\ sw.lastFetch.cached = cachesMatch(sw.caches, sw.lastFetch.url)
    /\ sw.lastFetch.cached => sw.lastFetch.source = "cache"
    /\ ~sw.lastFetch.cached => sw.lastFetch.source \in {"network", "failure"}
    /\ sw.lastFetch.network <=> ~sw.lastFetch.cached

C16_Witness ==
  /\ sw.lastFetch.url = "/index.html"
  /\ sw.lastFetch.source = "cache"
  /\ sw.down = {"/index.html"}

\* C17: the bucket CACHE_NAME only ever holds manifest URLs, a fetch event
\* leaves every bucket as it was, and a request outside the manifest is
\* answered from the network.
C17_ManifestOnly ==
  /\ [](CACHE_NAME \in DOMAIN sw.caches => sw.caches[CACHE_NAME] \subseteq Manifest)
  /\ [][AnyFetch => sw.caches' = sw.caches]_vars
  /\ []((sw.lastFetch.url # None /\ sw.lastFetch.url \notin Manifest)
          => sw.lastFetch.network /\ sw.lastFetch.source # "cache")

C17_Witness ==
  /\ sw.lastFetch.url = "/contact.html"
  /\ sw.lastFetch.source = "network"
  /\ "portfolio-v1" \in DOMAIN sw.start.caches

Toggled == \E i \in 1..Len(th.mgr) : th'.mgr[i].ntog > th.mgr[i].ntog

\* C26: whatever localStorage holds under 'theme' at page load, every step
\* that changes the stored value is a toggleTheme call, every value
\* toggleTheme leaves stored is 'light' or 'dark', and a ThemeManager
\* construction or an OS preference change leaves the stored value as it was.
C26_StoredOnlyByToggle ==
  [][/\ th'.stored # th.stored => Toggled /\ th'.stored \in Themes
     /\ \A k \in 1..Len(th'.snaps) : th'.snaps[k].stored \in Themes
     /\ (Len(th'.mgr) > Len(th.mgr) \/ th'.prefersDark # th.prefersDark)
          => th'.stored = th.stored
    ]_vars

C26_Witness ==
  /\ Len(th.mgr) >= 1
  /\ th.mgr[1].v0 = "blue"
  /\ th.mgr[1].theme0 = "blue"
  /\ th.mgr[1].ntog = 1
  /\ th.stored = "light"
  /\ th.prefersDark # th.mgr[1].os0

Rejected == {i \in 1..Len(app.reg) : app.reg[i] = "rejected"}

\* C21: every rejected registration is logged by logError and none becomes
\* an unhandled rejection; every init body that constructed the
\* ServiceWorkerManager went on to set isInitialized and dispatch
\* portfolioReady, whatever the state of the registration.
C21_RegistrationNotFatal ==
  /\ app.regLogged = Cardinality(Rejected)
  /\ er.last = None
  /\ \A k \in 1..Len(app.runs) :
       (\E j \in 1..Len(app.runs[k]) : app.runs[k][j].ev = "serviceWorker")
         => /\ app.runs[k][Len(app.runs[k])].ev = "ready"
            /\ app.isInitialized
            /\ app.ready >= 1

C21_Witness ==
  /\ Len(app.reg) = 2
  /\ app.reg[1] = "rejected"
  /\ app.reg[2] = "pending"
  /\ app.regLogged = 1
  /\ app.isInitialized

\* C23: a constructed PerformanceManager has registered the CLS, FID and LCP
\* callbacks exactly when the web-vitals library is on the page, and its
\* constructor threw in neither case.
C23_VitalsIffLibrary ==
  app.built["performance"] >= 1 =>
    /\ "performance" \notin app.thrownBy
    /\ \A m \in Metrics : app.vitals[m] >= 1 <=> hasWebVitals

\* C24: over any sequence of intersection events, loadImage is called at
\* most once on each observed image, which no observer that handled it still
\* observes, and its src is assigned from data-src at most once; an image
\* whose promoted src failed to load has been logged and carries no 'loaded'
\* marker.
C24_FireOnce ==
  \A m \in Images :
    (\E i \in 1..Len(lz.mgr) : ~lz.mgr[i].fallback) =>
      /\ lz.img[m].calls <= 1
      /\ lz.img[m].srcSets <= 1
      /\ (lz.img[m].srcSets = 1 /\ lz.img[m].load = "error") =>
           ~lz.img[m].loaded /\ lz.errors >= 1

ScrollQuiet == sc.heard /\ \A i \in 1..Len(sc.inThrottle) : ~sc.inThrottle[i]

\* C25: after a burst of scroll events, once every throttle timer has fired,
\* the link of the section that holds scrollY + 100 is the one carrying
\* 'active'.
C25_ActiveLinkConverges ==
  ScrollQuiet =>
    \A k \in 1..Len(Sections) :
      (Sections[k].link /\ InSection(Sections[k], sc.scrollY + Lookahead))
        => sc.active = {Sections[k].id}

\* C22: once the handlers of a theme change or of a scroll event have run,
\* the background the script gave the navbar is the dark rgba one iff
\* data-theme is 'dark', whatever the interleaving of theme changes, scroll
\* events and throttle timers.
C22_NavbarFollowsTheme ==
  sc.navbar.palette # None =>
    (sc.navbar.palette = "dark" <=> th.dataTheme = "dark")

====
